---- MODULE Spec2Model ----
(***************************************************************************)
(* The Stoplight component (src/src/components/Stoplight.tsx): the input   *)
(* normalizers, and the stepper that React and the host's event loop       *)
(* drive. Every task of the event loop is one step: a render with its      *)
(* commit, the passive effects of a commit, a timeout that runs            *)
(* handleLightTransition, the removal of the component. A render is        *)
(* preceded by the passive effects that are still to run, and a timeout    *)
(* that is due may run between any two of React's tasks.                   *)
(*                                                                         *)
(* A JavaScript value is a record [t, n, half, s]:                         *)
(*   t = "num"        the finite number n (half = FALSE) or n + 0.5        *)
(*   t = "nan"        NaN                                                  *)
(*   t = "inf"        Infinity                                             *)
(*   t = "undefined"  undefined                                            *)
(*   t = "string"     the string s                                         *)
(*   t = "symbol"     a Symbol                                             *)
(* An array-valued prop is [k, items]: k = "array", "undefined" (absent),  *)
(* "forEach" (no array, but a value with a forEach method) or "other"      *)
(* (another truthy value that is no array).                                *)
(***************************************************************************)
EXTENDS Integers, Sequences, FiniteSets, TLC

VARIABLES
    props,             \* the props of the last render
    memo,              \* what that render derived from them (the useMemo values)
    mounted,           \* the instance is in the tree
    sequencePosition,  \* useState: the cursor as last rendered (a number or NaN)
    onLightChangeRef,  \* useRef: onLightChangeRef.current
    updateQueue,       \* the updates of sequencePosition queued and not yet rendered
    alternateLanes,    \* the fiber's alternate is marked with work: alternate.lanes # NoLanes
    passiveEffects,    \* the effects of the last commit that have not run yet
    timers,            \* the host's pending timeouts
    timer,             \* the handle the timer effect's cleanup closes over
    ev                 \* history: the last step and the calls it made

vars == <<props, memo, mounted, sequencePosition, onLightChangeRef, updateQueue,
         alternateLanes, passiveEffects, timers, timer, ev>>

----------------------------------------------------------------------------
(* JavaScript values *)

Num(n) == [t |-> "num", n |-> n, half |-> FALSE, s |-> ""]
NumHalf(n) == [t |-> "num", n |-> n, half |-> TRUE, s |-> ""]
NaN == [t |-> "nan", n |-> 0, half |-> FALSE, s |-> ""]
Infinity == [t |-> "inf", n |-> 0, half |-> FALSE, s |-> ""]
Undefined == [t |-> "undefined", n |-> 0, half |-> FALSE, s |-> ""]
Str(s) == [t |-> "string", n |-> 0, half |-> FALSE, s |-> s]
\* Symbol(): a value that neither a comparison nor a template literal can convert
Symbol == [t |-> "symbol", n |-> 0, half |-> FALSE, s |-> ""]

Arr(items) == [k |-> "array", items |-> items]
Absent == [k |-> "undefined", items |-> <<>>]
\* a truthy value that is no array and has no forEach: a non-empty string, a
\* number, a plain object
NotArray == [k |-> "other", items |-> <<>>]
\* a value that is no array and has a forEach method: an empty Set, Map or typed
\* array
HasForEach == [k |-> "forEach", items |-> <<>>]

\* typeof x === 'number' && !Number.isNaN(x) && Number.isFinite(x)
IsFiniteNumber(x) == x.t = "num"
\* Math.floor of a finite number
Floor(x) == x.n
\* x >= m and x <= m for a finite number x and an integer m
GeInt(x, m) == x.n >= m
LeInt(x, m) == IF x.half THEN x.n < m ELSE x.n <= m

Max2(a, b) == IF a >= b THEN a ELSE b
Min2(a, b) == IF a <= b THEN a ELSE b

\* arr[i] for a JS value i: undefined unless i is an integer index of arr
At(arr, i) ==
    IF i.t = "num" /\ ~i.half /\ i.n >= 0 /\ i.n < Len(arr)
    THEN Num(arr[i.n + 1])
    ELSE Undefined

\* arr.indexOf(x) for an array of integers: the first position (from 0), or -1
IndexOf(arr, x) ==
    IF x.t = "num" /\ ~x.half /\ \E i \in 1..Len(arr) : arr[i] = x.n
    THEN (CHOOSE i \in 1..Len(arr) :
              arr[i] = x.n /\ \A j \in 1..(i - 1) : arr[j] # x.n) - 1
    ELSE -1

\* arr.includes(x) for an array of integers
Includes(arr, x) == IndexOf(arr, x) >= 0

\* a step that runs off the end of the sequence instead of wrapping to 0
NextPositionNoWrap(a, n) ==
    IF a.t = "num" /\ n # 0 THEN Num(a.n + 1) ELSE NaN

\* (a + 1) % n as JavaScript computes it for a cursor a >= 0: NaN when a is NaN
\* or n is 0
NextPosition(a, n) ==
    IF a.t = "num" /\ n # 0 THEN Num((a.n + 1) % n) ELSE NaN

----------------------------------------------------------------------------
(* Constants of the component *)

DEFAULT_TIMING == 1000
MAX_SAFE_TIMEOUT == 2147483647
MIN_SAFE_TIMING == 10
DEFAULT_COLORS == <<Str("#facc15"), Str("#ef4444"), Str("#22c55e")>>

----------------------------------------------------------------------------
(* The normalizers *)

\* a normalization that floors a finite value and does not clamp it
normalizeTimingUnclamped(value, defaultValue, min, max) ==
    IF ~IsFiniteNumber(value) THEN defaultValue ELSE Floor(value)

\* a clamp that applies the upper bound last
normalizeTimingMaxLast(value, defaultValue, min, max) ==
    IF ~IsFiniteNumber(value)
    THEN defaultValue
    ELSE Min2(max, Max2(min, Floor(value)))

normalizeTiming(value, defaultValue, min, max) ==
    IF ~IsFiniteNumber(value)
    THEN defaultValue
    ELSE Max2(min, Min2(max, Floor(value)))

normalizeColors(colors) ==
    IF colors.k # "array" \/ Len(colors.items) = 0
    THEN DEFAULT_COLORS
    ELSE SelectSeq(colors.items, LAMBDA c : c.t = "string")

\* timings[i] of a JS array: undefined past its end
RawAt(items, i) == IF i <= Len(items) THEN items[i] ELSE Undefined

normalizeTimings(timings, numLights, minTiming, maxTiming) ==
    IF timings.k # "array"
    THEN [i \in 1..numLights |-> DEFAULT_TIMING]
    ELSE [i \in 1..numLights |->
             normalizeTiming(RawAt(timings.items, i), DEFAULT_TIMING, minTiming, maxTiming)]

validateLightIndex(index, maxIndex, defaultIndex) ==
    IF ~IsFiniteNumber(index)
    THEN defaultIndex
    ELSE IF Floor(index) < 0 \/ Floor(index) > maxIndex
         THEN defaultIndex
         ELSE Num(Floor(index))

\* a default sequence in declaration order
DefaultSequenceAscending(maxIndex) == [i \in 1..(maxIndex + 1) |-> i - 1]

\* for (let i = maxIndex; i >= 0; i--) defaultSeq.push(i)
DefaultSequence(maxIndex) ==
    [i \in 1..(maxIndex + 1) |-> maxIndex + 1 - i]

\* a filter that does not check the upper end of the range
ValidSequenceEntryNoUpper(idx, maxIndex) == IsFiniteNumber(idx) /\ GeInt(idx, 0)

ValidSequenceEntry(idx, maxIndex) ==
    IsFiniteNumber(idx) /\ GeInt(idx, 0) /\ LeInt(idx, maxIndex)

RECURSIVE FloorAll(_)
FloorAll(items) ==
    IF items = <<>> THEN <<>> ELSE <<Floor(Head(items))>> \o FloorAll(Tail(items))

\* a normalization that falls back to the default sequence when no entry is valid
normalizeSequenceDefaultFallback(sequence, maxIndex) ==
    IF sequence.k # "array" \/ Len(sequence.items) = 0
    THEN DefaultSequence(maxIndex)
    ELSE LET validIndices ==
                 FloorAll(SelectSeq(sequence.items,
                                    LAMBDA idx : ValidSequenceEntry(idx, maxIndex)))
         IN  IF Len(validIndices) > 0 THEN validIndices ELSE DefaultSequence(maxIndex)

normalizeSequence(sequence, maxIndex) ==
    IF sequence.k # "array" \/ Len(sequence.items) = 0
    THEN DefaultSequence(maxIndex)
    ELSE LET validIndices ==
                 FloorAll(SelectSeq(sequence.items,
                                    LAMBDA idx : ValidSequenceEntry(idx, maxIndex)))
         IN  IF Len(validIndices) > 0 THEN validIndices ELSE <<maxIndex>>

----------------------------------------------------------------------------
(* What a render derives from the props (the useMemo values) *)

minTimingOf(p) == IF p.minTiming.t = "undefined" THEN MIN_SAFE_TIMING ELSE p.minTiming.n
maxTimingOf(p) == IF p.maxTiming.t = "undefined" THEN MAX_SAFE_TIMEOUT ELSE p.maxTiming.n

normalizedColors(p) == normalizeColors(p.colors)
numLights(p) == Len(normalizedColors(p))
maxLightIndex(p) == numLights(p) - 1
normalizedSequence(p) == normalizeSequence(p.sequence, maxLightIndex(p))
normalizedTimings(p) ==
    normalizeTimings(p.timings, numLights(p), minTimingOf(p), maxTimingOf(p))

\* const defaultInitialLight = normalizedSequence[0]
DefaultInitialLight(seq) == At(seq, Num(0))

ValidatedInitialLight(initialLight, maxIndex, seq) ==
    LET validated == validateLightIndex(initialLight, maxIndex, DefaultInitialLight(seq))
    IN  IF initialLight.t # "undefined" /\ ~Includes(seq, validated)
        THEN DefaultInitialLight(seq)
        ELSE validated

InitialSequencePosition(validated, seq) ==
    LET pos == IndexOf(seq, validated)
    IN  IF pos >= 0 THEN pos ELSE 0

\* normalizedSequence.join(',') + ':' + initialSequencePosition: the join of a list
\* of integers determines the list, so the key is the pair
SequenceKey(seq, initialPos) == <<seq, initialPos>>

validatedInitialLight(p) ==
    ValidatedInitialLight(p.initialLight, maxLightIndex(p), normalizedSequence(p))

initialSequencePosition(p) ==
    InitialSequencePosition(validatedInitialLight(p), normalizedSequence(p))

\* the memoized values of one render
Render(p) ==
    LET n    == Len(normalizeColors(p.colors))
        seq  == normalizeSequence(p.sequence, n - 1)
        init == InitialSequencePosition(
                    ValidatedInitialLight(p.initialLight, n - 1, seq), seq)
    IN  [numLights |-> n,
         maxLightIndex |-> n - 1,
         normalizedSequence |-> seq,
         normalizedTimings |->
             normalizeTimings(p.timings, n, minTimingOf(p), maxTimingOf(p)),
         initialSequencePosition |-> init,
         sequenceKey |-> SequenceKey(seq, init),
         minTiming |-> minTimingOf(p),
         maxTiming |-> maxTimingOf(p)]

----------------------------------------------------------------------------
(* The host's timers *)

\* the delay setTimeout waits for: a missing or negative delay is 0
TimeoutDelay(delay) == IF delay.t = "num" /\ delay.n > 0 THEN delay.n ELSE 0

FreshTimerId(tms) == CHOOSE i \in 1..(Cardinality(tms) + 1) : \A t \in tms : t.id # i

\* setTimeout(handleLightTransition, delay): the handler closes over the
\* normalizedSequence of the render that created it
setTimeout(tms, seq, delay) ==
    tms \cup {[id |-> FreshTimerId(tms), delay |-> delay,
               remaining |-> TimeoutDelay(delay), seq |-> seq]}

clearTimeout(tms, id) == {t \in tms : t.id # id}

----------------------------------------------------------------------------
(* The deps of the effects; r and old are the memoized values of two renders *)

ArrayProps == {"colors", "timings", "sequence"}
PropNames == {"colors", "timings", "sequence", "initialLight", "className",
              "onLightChange", "minTiming", "maxTiming"}

\* the props whose identity (Object.is) differs between two renders: a freshly
\* built array differs from the previous one even when its contents are equal
ChangedProps(old, new, fresh) ==
    {f \in PropNames : new[f] # old[f]} \cup fresh

\* useMemo recomputes normalizedSequence, and with it useCallback
\* handleLightTransition: deps [sequence, maxLightIndex]
SequenceRecomputed(old, r, changed) ==
    "sequence" \in changed \/ r.maxLightIndex # old.maxLightIndex

\* useMemo recomputes normalizedTimings: deps [timings, numLights, minTiming, maxTiming]
TimingsRecomputed(old, r, changed) ==
    \/ "timings" \in changed
    \/ r.numLights # old.numLights
    \/ r.minTiming # old.minTiming
    \/ r.maxTiming # old.maxTiming

\* const activeLightIndex = normalizedSequence[sequencePosition]
ActiveOf(r, pos) == At(r.normalizedSequence, pos)

\* const currentTiming = normalizedTimings[activeLightIndex]
TimingOf(r, pos) == At(r.normalizedTimings, ActiveOf(r, pos))

\* a timer effect that also depends on the callback
TimerDepsChangedWithCallback(old, oldPos, r, newPos, changed) ==
    \/ newPos # oldPos
    \/ ActiveOf(r, newPos) # ActiveOf(old, oldPos)
    \/ TimingsRecomputed(old, r, changed)
    \/ SequenceRecomputed(old, r, changed)
    \/ "onLightChange" \in changed

\* a timer effect keyed on the light index and not on the position
TimerDepsChangedByLight(old, oldPos, r, newPos, changed) ==
    \/ ActiveOf(r, newPos) # ActiveOf(old, oldPos)
    \/ TimingsRecomputed(old, r, changed)
    \/ SequenceRecomputed(old, r, changed)

\* the timer effect's deps:
\* [sequencePosition, activeLightIndex, normalizedTimings, handleLightTransition]
TimerDepsChanged(old, oldPos, r, newPos, changed) ==
    \/ newPos # oldPos
    \/ ActiveOf(r, newPos) # ActiveOf(old, oldPos)
    \/ TimingsRecomputed(old, r, changed)
    \/ SequenceRecomputed(old, r, changed)

\* the timer effect: the cleanup of the previous run, then the new timeout
TimerEffect(tms, handle, r, pos) ==
    LET cleared == clearTimeout(tms, handle)
    IN  [timers |-> setTimeout(cleared, r.normalizedSequence, TimingOf(r, pos)),
         timer  |-> FreshTimerId(cleared)]

----------------------------------------------------------------------------
(* The update queue of useState and the passive effects of a commit *)

\* setSequencePosition(v)
SetState(v) == [kind |-> "set", value |-> v]

\* setSequencePosition(prevPos => ...): the updater of a handleLightTransition
\* that closes over the normalizedSequence seq
Updater(seq) == [kind |-> "updater", seq |-> seq]

\* onLightChangeRef.current?.(nextIndex) inside try/catch
CallOnLightChange(ref, nextIndex) ==
    IF ref = "none"
    THEN <<>>
    ELSE <<[cb |-> ref, arg |-> nextIndex, threw |-> ref = "cbThrows"]>>

\* one update applied to a state; an updater computes nextPos and nextIndex and
\* calls the callback the holder has when it runs
ApplyUpdate(state, u, ref) ==
    IF u.kind = "set"
    THEN [state |-> u.value, calls |-> <<>>]
    ELSE LET nextPos == NextPosition(state, Len(u.seq))
             nextIndex == At(u.seq, nextPos)
         IN  [state |-> nextPos, calls |-> CallOnLightChange(ref, nextIndex)]

\* React's dispatchSetState. When neither the fiber nor its alternate is marked
\* with work (fiber.lanes === NoLanes: nothing is queued; alternate.lanes ===
\* NoLanes: lanes) the update is applied at once to the rendered state, dropped
\* when it gives that state again (Object.is) and queued with its result
\* otherwise; in every other case it is queued as it is and runs when React
\* renders. Queuing marks the fiber and its alternate.
dispatchSetState(queue, lanes, state, u, ref) ==
    IF queue = <<>> /\ ~lanes
    THEN LET a == ApplyUpdate(state, u, ref)
         IN  IF a.state = state
             THEN [queue |-> <<>>, lanes |-> FALSE, calls |-> a.calls]
             ELSE [queue |-> <<SetState(a.state)>>, lanes |-> TRUE, calls |-> a.calls]
    ELSE [queue |-> Append(queue, u), lanes |-> TRUE, calls |-> <<>>]

\* the render applies the queued updates in order
RECURSIVE processUpdateQueue(_, _, _)
processUpdateQueue(queue, state, ref) ==
    IF queue = <<>>
    THEN [state |-> state, calls |-> <<>>]
    ELSE LET a == ApplyUpdate(state, Head(queue), ref)
             rest == processUpdateQueue(Tail(queue), a.state, ref)
         IN  [state |-> rest.state, calls |-> a.calls \o rest.calls]

\* the passive effects a commit leaves to run: the ref effect, the reset effect,
\* the timer effect (its cleanup, then its body), or the cleanup of an unmount
NoEffects == [ref |-> FALSE, reset |-> FALSE, timer |-> FALSE, cleanup |-> FALSE]
MountEffects == [ref |-> TRUE, reset |-> TRUE, timer |-> TRUE, cleanup |-> FALSE]

\* the effects whose deps changed between the previous render and this one:
\* [onLightChange], [sequenceKey], and the timer effect's deps
EffectsOf(old, oldPos, r, newPos, changed) ==
    [ref     |-> "onLightChange" \in changed,
     reset   |-> r.sequenceKey # old.sequenceKey,
     timer   |-> TimerDepsChanged(old, oldPos, r, newPos, changed),
     cleanup |-> FALSE]

\* the reset effect: setSequencePosition(initialSequencePosition)
ResetEffect(queue, lanes, r, pos) ==
    dispatchSetState(queue, lanes, pos, SetState(Num(r.initialSequencePosition)), "none")

----------------------------------------------------------------------------
(* Inputs *)

ColorsInputs ==
    { Absent,
      Arr(<<Str("red"), Str("blue")>>),
      Arr(<<Num(7)>>) }

SequenceInputs ==
    { Absent,
      Arr(<<Num(0), Num(1), Num(2), Num(0)>>),
      Arr(<<Num(5)>>) }

TimingsInputs ==
    { Absent,
      Arr(<<Num(100), Num(200), Num(300)>>) }

InitialLightInputs == { Undefined, Num(0) }

\* className is left out (the component takes '') or a class list
ClassNameInputs == { Undefined, Str("lit") }

\* no callback, and a callback that throws: the handler catches what a callback
\* throws, so that a callback that returns leaves the same state behind
CallbackInputs == { "none", "cbThrows" }

MinTimingInputs == { Undefined, Num(150) }
MaxTimingInputs == { Undefined, Num(250) }

\* the values the re-renders of Spec give each prop: the lights, the sequence,
\* the initial light, the class and the callback vary, the timing props are
\* left out
PropDomain(f) ==
    CASE f = "colors" -> ColorsInputs
      [] f = "timings" -> {Absent}
      [] f = "sequence" -> SequenceInputs
      [] f = "initialLight" -> InitialLightInputs
      [] f = "className" -> ClassNameInputs
      [] f = "onLightChange" -> CallbackInputs
      [] f = "minTiming" -> {Undefined}
      [] f = "maxTiming" -> {Undefined}

\* the values the re-renders of SpecRetime give each prop: the timings, their
\* bounds, the class and the callback vary, the lights and the sequence are the
\* default ones
RetimeDomain(f) ==
    CASE f = "colors" -> {Absent}
      [] f = "timings" -> TimingsInputs
      [] f = "sequence" -> {Absent}
      [] f = "initialLight" -> {Undefined}
      [] f = "className" -> ClassNameInputs
      [] f = "onLightChange" -> CallbackInputs
      [] f = "minTiming" -> MinTimingInputs
      [] f = "maxTiming" -> MaxTimingInputs

PropsSpace ==
    [colors : ColorsInputs, timings : {Absent}, sequence : SequenceInputs,
     initialLight : InitialLightInputs, className : ClassNameInputs,
     onLightChange : CallbackInputs,
     minTiming : {Undefined}, maxTiming : {Undefined}]

RetimePropsSpace ==
    [colors : {Absent}, timings : TimingsInputs, sequence : {Absent},
     initialLight : {Undefined}, className : ClassNameInputs,
     onLightChange : CallbackInputs,
     minTiming : MinTimingInputs, maxTiming : MaxTimingInputs]

\* how many props one re-render passes with a new identity
MaxChanged == 2

\* one more prop with a new identity: another value of its domain, or (an
\* array) a freshly built array of the same contents
OneMore(c, D) ==
    {c}
    \cup UNION {{[props |-> [c.props EXCEPT ![f] = v], fresh |-> c.fresh] :
                    v \in D[f]} : f \in PropNames}
    \cup {[props |-> c.props, fresh |-> c.fresh \cup {f}] :
             f \in {g \in ArrayProps : c.props[g].k = "array"}}

RECURSIVE Reconfigurations(_, _, _)
Reconfigurations(p, k, D) ==
    IF k = 0 THEN {[props |-> p, fresh |-> {}]}
    ELSE UNION {OneMore(c, D) : c \in Reconfigurations(p, k - 1, D)}

\* the renders and the re-renders of every props of the model, computed once
RenderOf == [p \in PropsSpace \cup RetimePropsSpace |-> Render(p)]
ReconfigurationsOf ==
    [p \in PropsSpace |->
        Reconfigurations(p, MaxChanged, [f \in PropNames |-> PropDomain(f)])]
RetimingsOf ==
    [p \in RetimePropsSpace |->
        Reconfigurations(p, MaxChanged, [f \in PropNames |-> RetimeDomain(f)])]

----------------------------------------------------------------------------
(* The state machine *)

\* ev.op: the step; ev.calls: the invocations of onLightChange the step made, in
\* order; ev.changed: the props the last re-render changed, kept until a step
\* starts with that re-render's effects run and its updates rendered
Event(op, changed, calls) == [op |-> op, changed |-> changed, calls |-> calls]

\* nothing of React's is left to run
Settled == updateQueue = <<>> /\ passiveEffects = NoEffects

KeptChanged == IF Settled THEN {} ELSE ev.changed

\* mount: the first render, useState(initialSequencePosition),
\* useRef(onLightChange), and the commit; the three effects are still to run
Init ==
    \E p \in PropsSpace :
        LET r == RenderOf[p]
        IN  /\ props = p
            /\ memo = r
            /\ mounted = TRUE
            /\ sequencePosition = Num(r.initialSequencePosition)
            /\ onLightChangeRef = p.onLightChange
            /\ updateQueue = <<>>
            /\ alternateLanes = FALSE
            /\ passiveEffects = MountEffects
            /\ timers = {}
            /\ timer = 0
            /\ ev = Event("mount", {}, <<>>)

\* a render of the mounted component with the props np and the memoized values
\* r: the queued updates are applied (their updaters call the callback), and
\* unless neither the props nor the state changed the result is committed,
\* which leaves the effects whose deps changed to run. The fiber rendered
\* becomes the current one, unmarked; the previous one, its alternate from now
\* on, keeps the mark of the updates rendered, except after a bail-out, which
\* removes it
RenderAndCommit(np, r, changed, op, history) ==
    LET q == processUpdateQueue(updateQueue, sequencePosition, onLightChangeRef)
    IN  /\ updateQueue' = <<>>
        /\ ev' = Event(op, history, q.calls)
        /\ IF changed = {} /\ q.state = sequencePosition
           THEN /\ alternateLanes' = FALSE
                /\ UNCHANGED <<props, memo, sequencePosition, passiveEffects>>
           ELSE /\ props' = np
                /\ memo' = r
                /\ sequencePosition' = q.state
                /\ alternateLanes' = (updateQueue # <<>>)
                /\ passiveEffects' = EffectsOf(memo, sequencePosition, r, q.state, changed)
        /\ UNCHANGED <<mounted, onLightChangeRef, timers, timer>>

\* the parent renders the component with props np, whose memoized values are
\* r; React runs the effects of the previous commit first. When no prop changed
\* and nothing is queued memo() skips the render, and the fiber is left with no
\* pending work (with something queued the render is that of FlushUpdate)
RerenderAs(np, r, fresh) ==
    LET changed == ChangedProps(props, np, fresh)
    IN  /\ mounted
        /\ passiveEffects = NoEffects
        /\ changed # {} \/ updateQueue = <<>>
        /\ Cardinality(changed) <= MaxChanged
        /\ RenderAndCommit(np, r, changed, "rerender", changed)

Rerender(np, fresh) == RerenderAs(np, RenderOf[np], fresh)

\* React renders the queued updates of sequencePosition
FlushUpdate ==
    /\ mounted
    /\ passiveEffects = NoEffects
    /\ updateQueue # <<>>
    /\ RenderAndCommit(props, memo, {}, "flush", ev.changed)

\* React runs the passive effects of the last commit: the ref effect, the reset
\* effect and the timer effect (cleanup, then setTimeout) of a render, or the
\* cleanup of the timer effect after the removal
RunEffects ==
    LET te == TimerEffect(timers, timer, memo, sequencePosition)
        reset == ResetEffect(updateQueue, alternateLanes, memo, sequencePosition)
    IN  /\ passiveEffects # NoEffects
        /\ passiveEffects' = NoEffects
        /\ ev' = Event("effects", ev.changed, <<>>)
        /\ IF passiveEffects.cleanup
           THEN /\ timers' = clearTimeout(timers, timer)
                /\ UNCHANGED <<onLightChangeRef, updateQueue, alternateLanes, timer>>
           ELSE /\ onLightChangeRef' = IF passiveEffects.ref THEN props.onLightChange
                                       ELSE onLightChangeRef
                /\ IF passiveEffects.reset
                   THEN updateQueue' = reset.queue /\ alternateLanes' = reset.lanes
                   ELSE UNCHANGED <<updateQueue, alternateLanes>>
                /\ IF passiveEffects.timer
                   THEN timers' = te.timers /\ timer' = te.timer
                   ELSE UNCHANGED <<timers, timer>>
        /\ UNCHANGED <<props, memo, mounted, sequencePosition>>

\* the host runs a timeout that is due: handleLightTransition calls
\* setSequencePosition with its updater and returns
Fire(t) ==
    LET d == dispatchSetState(updateQueue, alternateLanes, sequencePosition,
                              Updater(t.seq), onLightChangeRef)
    IN  /\ t.remaining = 0
        /\ timers' = timers \ {t}
        /\ updateQueue' = d.queue
        /\ alternateLanes' = d.lanes
        /\ ev' = Event("fire", KeptChanged, d.calls)
        /\ UNCHANGED <<props, memo, mounted, sequencePosition, onLightChangeRef,
                       passiveEffects, timer>>

\* the elapsed times the model tries: up to the next expiry, or (from a timeout
\* just set) one short of it
AdvanceChoices ==
    {t.remaining : t \in timers}
    \cup {t.remaining - 1 : t \in {u \in timers : u.remaining = TimeoutDelay(u.delay)}}

\* time passes, up to the next expiry
Advance(d) ==
    /\ d >= 1
    /\ \A t \in timers : d <= t.remaining
    /\ timers' = {[t EXCEPT !.remaining = @ - d] : t \in timers}
    /\ ev' = Event("advance", KeptChanged, <<>>)
    /\ UNCHANGED <<props, memo, mounted, sequencePosition, onLightChangeRef,
                   updateQueue, alternateLanes, passiveEffects, timer>>

\* the parent removes the component: React commits the removal (after the
\* effects of the previous commit) and leaves the cleanup of the timer effect
\* to run
Unmount ==
    /\ mounted
    /\ passiveEffects = NoEffects
    /\ mounted' = FALSE
    /\ passiveEffects' = [NoEffects EXCEPT !.cleanup = TRUE]
    /\ ev' = Event("unmount", KeptChanged, <<>>)
    /\ UNCHANGED <<props, memo, sequencePosition, onLightChangeRef, updateQueue,
                   alternateLanes, timers, timer>>

Next ==
    \/ \E c \in ReconfigurationsOf[props] : Rerender(c.props, c.fresh)
    \/ FlushUpdate
    \/ RunEffects
    \/ \E t \in timers : Fire(t)
    \/ \E d \in AdvanceChoices : Advance(d)
    \/ Unmount

Spec == Init /\ [][Next]_vars

\* mount, as Init, with the default lights and sequence and the timing props of
\* RetimePropsSpace
InitRetime ==
    \E p \in RetimePropsSpace :
        LET r == RenderOf[p]
        IN  /\ props = p
            /\ memo = r
            /\ mounted = TRUE
            /\ sequencePosition = Num(r.initialSequencePosition)
            /\ onLightChangeRef = p.onLightChange
            /\ updateQueue = <<>>
            /\ alternateLanes = FALSE
            /\ passiveEffects = MountEffects
            /\ timers = {}
            /\ timer = 0
            /\ ev = Event("mount", {}, <<>>)

\* as Next, the parent re-rendering with other timings, bounds, class or callback
NextRetime ==
    \/ \E c \in RetimingsOf[props] : Rerender(c.props, c.fresh)
    \/ FlushUpdate
    \/ RunEffects
    \/ \E t \in timers : Fire(t)
    \/ \E d \in AdvanceChoices : Advance(d)
    \/ Unmount

SpecRetime == InitRetime /\ [][NextRetime]_vars

----------------------------------------------------------------------------
(* The component mounted on raw props of every kind, and left to run *)

MountColors ==
    { Absent, NotArray, HasForEach, Arr(<<>>),
      Arr(<<Str("red"), Num(7), Str("blue")>>),
      Arr(<<Num(7), Undefined>>) }

MountSequences ==
    { Absent, NotArray, Arr(<<>>),
      Arr(<<Num(0), Num(1), Num(2), Num(0)>>),
      Arr(<<Num(5), Num(-1), NaN, Str("1"), NumHalf(2)>>),
      Arr(<<Num(1), NumHalf(0), Infinity, Num(1), Num(0)>>) }

MountTimings ==
    { Absent, NotArray, HasForEach,
      Arr(<<Num(5), NumHalf(180), Num(2147483647)>>),
      Arr(<<Num(-5), Num(200), Num(300), Num(400)>>),
      Arr(<<NaN, Infinity, Str("x")>>) }

MountInitialLights ==
    { Undefined, NaN, Infinity, Str("green"), Symbol,
      Num(-1), NumHalf(-1), Num(0), Num(1), NumHalf(1), Num(2), NumHalf(2), Num(3) }

MountMinTimings == { Undefined, Num(150), Num(2000) }
MountMaxTimings == { Undefined, Num(250) }

MountPropsSpace ==
    [colors : MountColors, timings : MountTimings, sequence : MountSequences,
     initialLight : MountInitialLights, className : {Undefined},
     onLightChange : {"cbA"},
     minTiming : MountMinTimings, maxTiming : MountMaxTimings]

\* validateProps, called by the render before its hooks. In a development build
\* (import.meta.env.DEV) it calls props.colors.forEach and props.timings.forEach
\* on whatever is truthy, which throws a TypeError on a value without forEach,
\* it puts every entry that is no string (colors) or no number (timings,
\* sequence) in a template literal, and it compares minTiming, maxTiming and
\* initialLight with a number: both throw a TypeError on a Symbol. Everything
\* else it does is console.warn
validateProps(p, DEV) ==
    IF DEV /\ (\/ p.colors.k = "other"
               \/ \E i \in 1..Len(p.colors.items) : p.colors.items[i] = Symbol
               \/ p.timings.k = "other"
               \/ \E i \in 1..Len(p.timings.items) : p.timings.items[i] = Symbol
               \/ p.minTiming = Symbol
               \/ p.maxTiming = Symbol
               \/ /\ p.sequence.k = "array"
                  /\ \E i \in 1..Len(p.sequence.items) :
                         p.sequence.items[i] = Symbol
               \/ p.initialLight = Symbol)
    THEN "throws"
    ELSE "returns"

\* no render has completed: no hook has run
NoRender ==
    [numLights |-> 0, maxLightIndex |-> -1, normalizedSequence |-> <<>>,
     normalizedTimings |-> <<>>, initialSequencePosition |-> 0,
     sequenceKey |-> SequenceKey(<<>>, 0), minTiming |-> 0, maxTiming |-> 0]

\* mount, as Init, on the raw props of MountPropsSpace, in a development or a
\* production build; a first render that throws mounts nothing
InitMount ==
    \E p \in MountPropsSpace, DEV \in BOOLEAN :
        LET r == Render(p)
            thrown == validateProps(p, DEV) = "throws"
        IN  /\ props = p
            /\ memo = IF thrown THEN NoRender ELSE r
            /\ mounted = ~thrown
            /\ sequencePosition = IF thrown THEN Undefined
                                  ELSE Num(r.initialSequencePosition)
            /\ onLightChangeRef = IF thrown THEN "none" ELSE p.onLightChange
            /\ updateQueue = <<>>
            /\ alternateLanes = FALSE
            /\ passiveEffects = IF thrown THEN NoEffects ELSE MountEffects
            /\ timers = {}
            /\ timer = 0
            /\ ev = Event(IF thrown THEN "throw" ELSE "mount", {}, <<>>)

\* what the parent builds anew for a re-render: nothing, or one of the arrays
\* among the props
FreshArrays == {{}} \cup {{g} : g \in {h \in ArrayProps : props[h].k = "array"}}

\* the parent renders the component again with the values it has, its arrays
\* built anew or not
RerenderSame(fresh) == RerenderAs(props, Render(props), fresh)

\* the parent re-renders with the same values, the timeouts expire, time passes,
\* the instance is unmounted
NextMount ==
    \/ \E fresh \in FreshArrays : RerenderSame(fresh)
    \/ FlushUpdate
    \/ RunEffects
    \/ \E t \in timers : Fire(t)
    \/ \E d \in AdvanceChoices : Advance(d)
    \/ Unmount

SpecMount == InitMount /\ [][NextMount]_vars

\* the event loop runs its tasks: React renders what is queued and runs its
\* effects, time keeps passing while a timeout is pending, and a timeout that is
\* due is run
SpecMountLive ==
    /\ InitMount
    /\ [][NextMount]_vars
    /\ WF_vars(FlushUpdate)
    /\ WF_vars(RunEffects)
    /\ WF_vars(\E d \in AdvanceChoices : Advance(d))
    /\ WF_vars(\E t \in timers : Fire(t))

----------------------------------------------------------------------------
(* normalizeTiming on its own: props holds the arguments, memo the result *)

TimingValues ==
    { Undefined, NaN, Infinity, Str("5"),
      Num(-5), Num(0), Num(5), NumHalf(5), Num(10), Num(120), NumHalf(249), Num(250),
      Num(3000) }
TimingDefaults == { 5, 200, 1000, 5000 }
TimingMins == { 0, 10, 150, 2000 }
TimingMaxs == { 100, 250, 2147483647 }

InitTiming ==
    /\ props \in [value : TimingValues, defaultValue : TimingDefaults,
                  min : TimingMins, max : TimingMaxs]
    /\ memo = [done |-> FALSE, result |-> 0]
    /\ mounted = FALSE
    /\ sequencePosition = Num(0)
    /\ onLightChangeRef = "none"
    /\ updateQueue = <<>>
    /\ alternateLanes = FALSE
    /\ passiveEffects = NoEffects
    /\ timers = {}
    /\ timer = 0
    /\ ev = Event("arguments", {}, <<>>)

ApplyNormalizeTiming ==
    /\ ~memo.done
    /\ memo' = [done |-> TRUE,
                result |-> normalizeTiming(props.value, props.defaultValue,
                                           props.min, props.max)]
    /\ ev' = Event("normalizeTiming", {}, <<>>)
    /\ UNCHANGED <<props, mounted, sequencePosition, onLightChangeRef, updateQueue,
                   alternateLanes, passiveEffects, timers, timer>>

NextTiming == ApplyNormalizeTiming

SpecTiming == InitTiming /\ [][NextTiming]_vars

----------------------------------------------------------------------------
(* The fixed three-light component (src/unnamed/part_000), mounted,          *)
(* re-rendered and left to run. Its state, useState activeLight, is a light  *)
(* name and is kept in the variable sequencePosition; memo holds             *)
(* normalizedTimings and validatedInitialLight; props.timings is the partial *)
(* timings object, an absent key being undefined.                            *)

DEFAULT_TIMINGS == [green |-> 5000, yellow |-> 1000, red |-> 2000]
VALID_LIGHT_STATES == <<"red", "yellow", "green">>
LIGHT_SEQUENCE == <<"green", "yellow", "red">>

validateLightState(light, defaultLight) ==
    IF light.t = "string" /\ \E i \in 1..Len(VALID_LIGHT_STATES) : VALID_LIGHT_STATES[i] = light.s
    THEN light.s
    ELSE defaultLight

mergeTimings(partialTimings, defaults, minTiming, maxTiming) ==
    [green  |-> normalizeTiming(partialTimings.green, defaults.green, minTiming, maxTiming),
     yellow |-> normalizeTiming(partialTimings.yellow, defaults.yellow, minTiming, maxTiming),
     red    |-> normalizeTiming(partialTimings.red, defaults.red, minTiming, maxTiming)]

getNextLight(currentLight) ==
    LET currentIndex == CHOOSE i \in 0..(Len(LIGHT_SEQUENCE) - 1) :
                            LIGHT_SEQUENCE[i + 1] = currentLight
        nextIndex == (currentIndex + 1) % Len(LIGHT_SEQUENCE)
    IN  LIGHT_SEQUENCE[nextIndex + 1]

\* the timings prop left out
FixedNoTimings == [green |-> Undefined, yellow |-> Undefined, red |-> Undefined]

FixedTimingsInputs ==
    { FixedNoTimings,
      [green |-> Num(3000), yellow |-> NaN, red |-> Undefined],
      [green |-> Num(3000), yellow |-> Num(500), red |-> Num(5)] }

FixedInitialLights == { Undefined, Str("red"), Str("blue") }

FixedPropNames == {"timings", "initialLight", "className", "onLightChange",
                   "minTiming", "maxTiming"}

FixedPropDomain(f) ==
    CASE f = "timings" -> FixedTimingsInputs
      [] f = "initialLight" -> FixedInitialLights
      [] f = "className" -> ClassNameInputs
      [] f = "onLightChange" -> {"cbA", "cbB"}
      [] f = "minTiming" -> {Undefined, Num(150)}
      [] f = "maxTiming" -> {Undefined}

FixedPropsSpace ==
    [timings : FixedTimingsInputs, initialLight : FixedInitialLights,
     className : ClassNameInputs, onLightChange : {"cbA", "cbB"}, minTiming : {Undefined, Num(150)},
     maxTiming : {Undefined}]

\* one more prop with a new identity: another value, or a freshly built timings
\* object of the same contents
OneMoreFixed(c) ==
    {c}
    \cup UNION {{[props |-> [c.props EXCEPT ![f] = v], fresh |-> c.fresh] :
                    v \in FixedPropDomain(f)} : f \in FixedPropNames}
    \cup (IF c.props.timings = FixedNoTimings THEN {}
          ELSE {[props |-> c.props, fresh |-> c.fresh \cup {"timings"}]})

RECURSIVE ReconfigurationsFixed(_, _)
ReconfigurationsFixed(p, k) ==
    IF k = 0 THEN {[props |-> p, fresh |-> {}]}
    ELSE UNION {OneMoreFixed(c) : c \in ReconfigurationsFixed(p, k - 1)}

\* one render of the fixed component: initialLight = 'green' by default
RenderFixed(p) ==
    [normalizedTimings |->
         mergeTimings(p.timings, DEFAULT_TIMINGS, minTimingOf(p), maxTimingOf(p)),
     validatedInitialLight |->
         validateLightState(IF p.initialLight.t = "undefined" THEN Str("green")
                            ELSE p.initialLight, "green")]

\* the renders and the re-renders of every props of the fixed model, computed once
RenderOfFixed == [p \in FixedPropsSpace |-> RenderFixed(p)]
ReconfigurationsOfFixed ==
    [p \in FixedPropsSpace |-> ReconfigurationsFixed(p, MaxChanged)]

\* the props whose identity differs between two renders of the fixed component
ChangedPropsFixed(old, new, fresh) ==
    {f \in FixedPropNames : new[f] # old[f]} \cup fresh

\* the effects whose deps changed between the previous render and this one:
\* [onLightChange], [validatedInitialLight], and the timer effect's deps
\* [activeLight, normalizedTimings, handleLightTransition], where useMemo
\* recomputes normalizedTimings on [timings, minTiming, maxTiming] and
\* handleLightTransition never changes
EffectsOfFixed(old, oldLight, r, newLight, changed) ==
    [ref     |-> "onLightChange" \in changed,
     reset   |-> r.validatedInitialLight # old.validatedInitialLight,
     timer   |-> \/ newLight # oldLight
                 \/ changed \cap {"timings", "minTiming", "maxTiming"} # {},
     cleanup |-> FALSE]

\* the timer effect of the fixed component: setTimeout(handleLightTransition,
\* normalizedTimings[activeLight]) after the cleanup of the previous run
TimerEffectFixed(tms, handle, r, light) ==
    LET cleared == clearTimeout(tms, handle)
    IN  [timers |-> setTimeout(cleared, LIGHT_SEQUENCE, Num(r.normalizedTimings[light])),
         timer  |-> FreshTimerId(cleared)]

\* one update applied to activeLight; the updater computes getNextLight and calls
\* the callback the holder has when it runs
ApplyUpdateFixed(state, u, ref) ==
    IF u.kind = "set"
    THEN [state |-> u.value, calls |-> <<>>]
    ELSE LET nextLight == getNextLight(state)
         IN  [state |-> nextLight, calls |-> CallOnLightChange(ref, nextLight)]

\* React's dispatchSetState on activeLight: applied at once when neither the
\* fiber nor its alternate is marked with work, queued as it is otherwise
dispatchSetStateFixed(queue, lanes, state, u, ref) ==
    IF queue = <<>> /\ ~lanes
    THEN LET a == ApplyUpdateFixed(state, u, ref)
         IN  IF a.state = state
             THEN [queue |-> <<>>, lanes |-> FALSE, calls |-> a.calls]
             ELSE [queue |-> <<SetState(a.state)>>, lanes |-> TRUE, calls |-> a.calls]
    ELSE [queue |-> Append(queue, u), lanes |-> TRUE, calls |-> <<>>]

\* the render applies the queued updates of activeLight in order
RECURSIVE processUpdateQueueFixed(_, _, _)
processUpdateQueueFixed(queue, state, ref) ==
    IF queue = <<>>
    THEN [state |-> state, calls |-> <<>>]
    ELSE LET a == ApplyUpdateFixed(state, Head(queue), ref)
             rest == processUpdateQueueFixed(Tail(queue), a.state, ref)
         IN  [state |-> rest.state, calls |-> a.calls \o rest.calls]

\* mount: the first render, useState(validatedInitialLight), and the commit; the
\* three effects are still to run
InitFixed ==
    \E p \in FixedPropsSpace :
        LET r == RenderOfFixed[p]
        IN  /\ props = p
            /\ memo = r
            /\ mounted = TRUE
            /\ sequencePosition = r.validatedInitialLight
            /\ onLightChangeRef = p.onLightChange
            /\ updateQueue = <<>>
            /\ alternateLanes = FALSE
            /\ passiveEffects = MountEffects
            /\ timers = {}
            /\ timer = 0
            /\ ev = Event("mount", {}, <<>>)

\* a render of the mounted fixed component with the props np: the queued updates
\* of activeLight are applied, and unless neither the props nor the state
\* changed the result is committed, which leaves the effects whose deps changed
\* to run
RenderAndCommitFixed(np, r, changed, op, history) ==
    LET q == processUpdateQueueFixed(updateQueue, sequencePosition, onLightChangeRef)
    IN  /\ updateQueue' = <<>>
        /\ ev' = Event(op, history, q.calls)
        /\ IF changed = {} /\ q.state = sequencePosition
           THEN /\ alternateLanes' = FALSE
                /\ UNCHANGED <<props, memo, sequencePosition, passiveEffects>>
           ELSE /\ props' = np
                /\ memo' = r
                /\ sequencePosition' = q.state
                /\ alternateLanes' = (updateQueue # <<>>)
                /\ passiveEffects' =
                       EffectsOfFixed(memo, sequencePosition, r, q.state, changed)
        /\ UNCHANGED <<mounted, onLightChangeRef, timers, timer>>

\* the parent renders the fixed component with props np; when no prop changed
\* and nothing is queued memo() skips the render, and the fiber is left with no
\* pending work
RerenderFixed(np, fresh) ==
    LET changed == ChangedPropsFixed(props, np, fresh)
    IN  /\ mounted
        /\ passiveEffects = NoEffects
        /\ changed # {} \/ updateQueue = <<>>
        /\ Cardinality(changed) <= MaxChanged
        /\ RenderAndCommitFixed(np, RenderOfFixed[np], changed, "rerender", changed)

\* React renders the queued updates of activeLight
FlushUpdateFixed ==
    /\ mounted
    /\ passiveEffects = NoEffects
    /\ updateQueue # <<>>
    /\ RenderAndCommitFixed(props, memo, {}, "flush", ev.changed)

\* React runs the passive effects of the last commit: the ref effect,
\* setActiveLight(validatedInitialLight) and the timer effect of a render, or the
\* cleanup of the timer effect after the removal
RunEffectsFixed ==
    LET te == TimerEffectFixed(timers, timer, memo, sequencePosition)
        reset == dispatchSetStateFixed(updateQueue, alternateLanes, sequencePosition,
                                       SetState(memo.validatedInitialLight), "none")
    IN  /\ passiveEffects # NoEffects
        /\ passiveEffects' = NoEffects
        /\ ev' = Event("effects", ev.changed, <<>>)
        /\ IF passiveEffects.cleanup
           THEN /\ timers' = clearTimeout(timers, timer)
                /\ UNCHANGED <<onLightChangeRef, updateQueue, alternateLanes, timer>>
           ELSE /\ onLightChangeRef' = IF passiveEffects.ref THEN props.onLightChange
                                       ELSE onLightChangeRef
                /\ IF passiveEffects.reset
                   THEN updateQueue' = reset.queue /\ alternateLanes' = reset.lanes
                   ELSE UNCHANGED <<updateQueue, alternateLanes>>
                /\ IF passiveEffects.timer
                   THEN timers' = te.timers /\ timer' = te.timer
                   ELSE UNCHANGED <<timers, timer>>
        /\ UNCHANGED <<props, memo, mounted, sequencePosition>>

\* the host runs a timeout that is due: handleLightTransition calls
\* setActiveLight with its updater and returns
FireFixed(t) ==
    LET d == dispatchSetStateFixed(updateQueue, alternateLanes, sequencePosition,
                                   [kind |-> "updater"], onLightChangeRef)
    IN  /\ t.remaining = 0
        /\ timers' = timers \ {t}
        /\ updateQueue' = d.queue
        /\ alternateLanes' = d.lanes
        /\ ev' = Event("fire", KeptChanged, d.calls)
        /\ UNCHANGED <<props, memo, mounted, sequencePosition, onLightChangeRef,
                       passiveEffects, timer>>

NextFixed ==
    \/ \E c \in ReconfigurationsOfFixed[props] : RerenderFixed(c.props, c.fresh)
    \/ FlushUpdateFixed
    \/ RunEffectsFixed
    \/ \E t \in timers : FireFixed(t)
    \/ \E d \in AdvanceChoices : Advance(d)
    \/ Unmount

SpecFixed == InitFixed /\ [][NextFixed]_vars

----------------------------------------------------------------------------
(* Claims *)

Sequence == memo.normalizedSequence
Active == ActiveOf(memo, sequencePosition)
Expired == ev.op = "fire"
\* a timeout just set for the light that is active now
FreshDelay(t) ==
    /\ t.delay = TimingOf(memo, sequencePosition)
    /\ t.remaining = TimeoutDelay(t.delay)
    /\ t.seq = Sequence

\* the cursor one update gives when it is rendered at the cursor of this state
Rendered(u) ==
    IF u.kind = "set" THEN u.value
    ELSE Num((sequencePosition.n + 1) % Len(u.seq))

\* C1: with no reconfiguration under way, on a Sequence of length n >= 1 a timer
\* expiry of a mounted instance at cursor c sets the cursor to (c + 1) mod n,
\* wrapping from the last position to 0: the update it queues (none when React
\* computes it at once and it is the position the cursor has) renders to that
\* position; and the render of that update makes it the cursor and the Sequence
\* entry there the active light; so the k-th expiry after a start at c0 leaves
\* the cursor at (c0 + k) mod n.
C1_ExpiryAdvancesByOne ==
    [][/\ (ev'.op = "fire" /\ mounted /\ Settled /\ Len(Sequence) >= 1) =>
           /\ sequencePosition.t = "num"
           /\ LET next == Num((sequencePosition.n + 1) % Len(Sequence))
              IN  IF updateQueue' = <<>>
                  THEN next = sequencePosition
                  ELSE Len(updateQueue') = 1 /\ Rendered(updateQueue'[1]) = next
       /\ (ev'.op = "flush" /\ Len(updateQueue) = 1 /\ sequencePosition.t = "num"
              /\ Len(Sequence) >= 1) =>
           /\ sequencePosition' = Rendered(updateQueue[1])
           /\ ActiveOf(memo', sequencePosition') = At(Sequence, Rendered(updateQueue[1]))]_vars

\* an expiry has wrapped a four-entry Sequence from its last position to 0
C1_Witness ==
    /\ ev.op = "flush" /\ ev.changed = {} /\ mounted
    /\ Len(Sequence) = 4
    /\ sequencePosition = Num(0)
    /\ Active = Num(0)

\* every pending timeout was set with the duration of a light
DelaysOfLights == \A t \in timers : t.delay.t = "num"

\* the updaters a queue holds, still to run
QueuedUpdaters(queue) == Cardinality({i \in 1..Len(queue) : queue[i].kind = "updater"})

\* C2 (as claimed, for a non-empty LightSet): a timer expiry of a mounted
\* instance whose holder has a callback invokes that callback exactly once (at
\* once, or when its queued updater is rendered), with the light the transition
\* makes active: the Sequence entry at the position after the cursor.
C2_OneCallPerExpiry ==
    [][(ev'.op = "fire" /\ mounted /\ memo.numLights >= 1
           /\ DelaysOfLights
           /\ onLightChangeRef # "none") =>
          /\ Len(ev'.calls) + QueuedUpdaters(updateQueue') - QueuedUpdaters(updateQueue) = 1
          /\ \A i \in 1..Len(ev'.calls) :
                 /\ ev'.calls[i].cb = onLightChangeRef
                 /\ ev'.calls[i].arg =
                        At(Sequence, NextPosition(sequencePosition, Len(Sequence)))]_vars

\* C3 (as claimed, for a non-empty LightSet): once the instance is unmounted
\* nothing invokes onLightChange any more, and once the cleanup of the removal
\* has run no timeout is pending.
C3_NothingAfterUnmount ==
    (~mounted /\ memo.numLights >= 1) => (ev.calls = <<>> /\ (passiveEffects = NoEffects => timers = {}))

\* C4 (as claimed, for a non-empty LightSet): when onLightChange throws during an
\* expiry, the expiry still sets the cursor to the next position, an update
\* whose render schedules the delay of the new light.
C4_ThrowDoesNotStall ==
    [][(ev'.op = "fire" /\ mounted /\ Settled /\ memo.numLights >= 1
           /\ ev'.calls # <<>> /\ ev'.calls[1].threw) =>
          updateQueue' = <<SetState(NextPosition(sequencePosition, Len(Sequence)))>>]_vars

\* C5 (as claimed, for a non-empty LightSet): on a Sequence of length 1 a mounted
\* instance with nothing left to render has a delay pending for its light, after
\* every expiry as well.
C5_SingleEntryKeepsCycling ==
    (mounted /\ Settled /\ memo.numLights >= 1 /\ Len(Sequence) = 1) =>
        \E t \in timers : t.delay = TimingOf(memo, sequencePosition)

\* C6 (as claimed, for a non-empty LightSet): a mounted instance whose effects
\* have run and whose updates are rendered has exactly one pending delay.
C6_ExactlyOneDelay ==
    (mounted /\ Settled /\ memo.numLights >= 1) => Cardinality(timers) = 1

InitialPosition == Num(memo.initialSequencePosition)
TimingProps == {"timings", "minTiming", "maxTiming"}

\* C7 (as claimed, for a reconfiguration that changes the contents of the
\* Sequence or its initial position, on a Sequence of two or more entries): a
\* reconfiguration that supplies new colors or a new sequence cancels the
\* pending delay, which therefore never expires once the reconfiguration is
\* committed, and restarts the machine: its effects leave exactly one pending
\* delay, a fresh full one, and the cursor at the initial position or a reset
\* to it as the last update to render.
C7_AnyNewColorsOrSequenceRestarts ==
    [][/\ (ev'.op = "fire" /\ mounted /\ Len(Sequence) >= 2 /\ DelaysOfLights
              /\ ev.changed \cap {"colors", "sequence"} # {}) =>
           ~passiveEffects.reset
       /\ (ev'.op = "effects" /\ mounted /\ Len(Sequence) >= 2 /\ passiveEffects.reset
              /\ ev.changed \cap {"colors", "sequence"} # {}) =>
           /\ IF updateQueue' = <<>> THEN sequencePosition = InitialPosition
              ELSE updateQueue'[Len(updateQueue')] = SetState(InitialPosition)
           /\ Cardinality(timers') = 1
           /\ \A t \in timers' :
                  /\ t.delay = TimingOf(memo, sequencePosition)
                  /\ t.remaining = TimeoutDelay(t.delay)]_vars

\* C8 (as claimed): a re-render that changes only the timing props, and with
\* them the timing table, while no expiry is being processed, leaves the cursor
\* where it is, queues nothing, invokes nothing and leaves the timer effect to
\* run; it cancels the pending delay, which therefore, set for another
\* duration than the new table has, never expires once the re-render is
\* committed; and the timer effect of a mounted instance leaves
\* exactly one pending delay: a full delay of the duration the timing table in
\* force has for the current light.
C8_TimingChangeRestartsCurrentLight ==
    [][/\ (/\ ev'.op = "rerender"
           /\ updateQueue = <<>>
           /\ ev'.changed # {} /\ ev'.changed \subseteq TimingProps
           /\ memo'.normalizedTimings # memo.normalizedTimings) =>
             /\ sequencePosition' = sequencePosition
             /\ updateQueue' = <<>>
             /\ ev'.calls = <<>>
             /\ passiveEffects' = [NoEffects EXCEPT !.timer = TRUE]
       /\ (ev'.op = "fire" /\ mounted
              /\ ev.changed # {} /\ ev.changed \subseteq TimingProps
              /\ \A t \in timers : t.delay # TimingOf(memo, sequencePosition)) =>
             ~passiveEffects.timer
       /\ (ev'.op = "effects" /\ mounted /\ passiveEffects.timer) =>
             /\ Cardinality(timers') = 1
             /\ \A t \in timers' :
                    /\ t.delay = At(memo.normalizedTimings, ActiveOf(memo, sequencePosition))
                    /\ t.remaining = TimeoutDelay(t.delay)]_vars

\* C9 (as claimed): a re-render with props of the same values, freshly built
\* lists included, while no expiry is being processed, leaves the cursor as it
\* is and no effect to run, so that the pending delay stays as it is.
C9_SameValuesChangeNothing ==
    [][(ev'.op = "rerender" /\ props' = props /\ updateQueue = <<>>) =>
          /\ sequencePosition' = sequencePosition
          /\ passiveEffects' = NoEffects]_vars

NoProps ==
    [colors |-> Absent, timings |-> Absent, sequence |-> Absent,
     initialLight |-> Undefined, className |-> Undefined,
     onLightChange |-> "none",
     minTiming |-> Undefined, maxTiming |-> Undefined]

\* the index of the yellow light of the default palette, '#facc15'
YellowIndex == CHOOSE i \in 0..2 : DEFAULT_COLORS[i + 1] = Str("#facc15")

\* C10 (as claimed): mounted without props, the component shows light 2, the
\* effects of the mount set a delay of 5000 ms, and the light after it is the
\* yellow one.
C10_DefaultGreenFiveSeconds ==
    [][(ev.op = "mount" /\ ev'.op = "effects" /\ props = NoProps) =>
          /\ Active = Num(2)
          /\ \A t \in timers' : t.delay = Num(5000) /\ t.remaining = 5000
          /\ At(Sequence, NextPosition(sequencePosition, Len(Sequence))) = Num(YellowIndex)]_vars

\* the initial light the configuration resolves to: the validated initialLight
\* when it occurs in the Sequence, the first entry of the Sequence otherwise
ResolvedInitialLight ==
    LET v == validateLightIndex(props.initialLight, memo.maxLightIndex,
                                At(Sequence, Num(0)))
    IN  IF v.t = "num" /\ \E i \in 1..Len(Sequence) : Sequence[i] = v.n
        THEN v
        ELSE At(Sequence, Num(0))

\* the cursor is where light x first occurs in the Sequence
AtFirstOccurrence(x) ==
    /\ x.t = "num"
    /\ sequencePosition.t = "num"
    /\ sequencePosition.n + 1 \in 1..Len(Sequence)
    /\ Sequence[sequencePosition.n + 1] = x.n
    /\ \A j \in 1..sequencePosition.n : Sequence[j] # x.n

\* C11 (as claimed): at mount the cursor is the position of the first occurrence
\* in the Sequence of the resolved initial light, and the active light is an
\* element of the Sequence.
C11_InitialCursorAtFirstOccurrence ==
    ev.op = "mount" =>
        /\ AtFirstOccurrence(ResolvedInitialLight)
        /\ Active = ResolvedInitialLight
        /\ \E i \in 1..Len(Sequence) : Active = Num(Sequence[i])

\* what validateLightIndex returns for the initialLight of the props
ValidatedIndex ==
    validateLightIndex(props.initialLight, memo.maxLightIndex, At(Sequence, Num(0)))

\* initialLight is a finite number
NumericInitialLight == props.initialLight.t = "num"

\* the number initialLight itself lies in [0, maxLightIndex]
InitialLightInRange ==
    /\ props.initialLight.n >= 0
    /\ IF props.initialLight.half
       THEN props.initialLight.n < memo.maxLightIndex
       ELSE props.initialLight.n <= memo.maxLightIndex

\* C12 (as claimed, generic variant): an initialLight that is no finite number,
\* or lies outside [0, maxLightIndex], makes the instance start at Sequence[0];
\* every other one is validated to its floor; and no initialLight makes the
\* first render throw: a render that throws throws without it as well.
C12_OutOfRangeStartsAtDefault ==
    /\ ev.op = "mount" =>
           IF NumericInitialLight /\ InitialLightInRange
           THEN ValidatedIndex = Num(props.initialLight.n)
           ELSE ValidatedIndex = At(Sequence, Num(0)) /\ Active = At(Sequence, Num(0))
    /\ ev.op = "throw" =>
           validateProps([props EXCEPT !.initialLight = Undefined], TRUE) = "throws"

\* the light a render's configuration resolves as the initial one
InitialLightOf(r) == At(r.normalizedSequence, Num(r.initialSequencePosition))

\* C13 (as claimed, for a non-empty LightSet): once the effects of a re-render
\* that changes only initialLight, to a value that resolves to another initial
\* light, have run, the cursor is at the new initial position with exactly one
\* pending delay, a fresh full one for that light, or a reset to that position is
\* the last update to render; and the render of that reset makes the new
\* initial light the active one and leaves the timer effect to run.
C13_NewInitialLightRestarts ==
    [][/\ (/\ ev'.op = "effects" /\ mounted /\ memo.numLights >= 1
           /\ ev.changed = {"initialLight"} /\ passiveEffects.reset) =>
              IF updateQueue' = <<>>
              THEN /\ sequencePosition = InitialPosition
                   /\ Cardinality(timers') = 1
                   /\ \A t \in timers' :
                          /\ t.delay = TimingOf(memo, sequencePosition)
                          /\ t.remaining = TimeoutDelay(t.delay)
              ELSE updateQueue'[Len(updateQueue')] = SetState(InitialPosition)
       /\ (ev'.op = "flush" /\ ev'.changed = {"initialLight"} /\ memo.numLights >= 1) =>
              /\ ActiveOf(memo', sequencePosition') = InitialLightOf(memo')
              /\ passiveEffects'.timer]_vars

\* x clamped into [lo, hi], for lo <= hi
Clamp(x, lo, hi) == IF x < lo THEN lo ELSE IF x > hi THEN hi ELSE x

\* the raw timing the props supply for the active light: undefined when there is none
SuppliedTiming ==
    IF props.timings.k = "array" /\ Active.t = "num" /\ Active.n >= 0
    THEN RawAt(props.timings.items, Active.n + 1)
    ELSE Undefined

\* C14: while a light is active for which the props supply a finite number t, and
\* minTiming <= maxTiming, the delay that is pending once the effects of its
\* render have run is max(minTiming, min(maxTiming, floor(t))), a value of
\* [minTiming, maxTiming]; and the effects of a render schedule a delay.
C14_ScheduledDelayIsClampedFloor ==
    (mounted /\ passiveEffects = NoEffects /\ SuppliedTiming.t = "num"
        /\ memo.minTiming <= memo.maxTiming) =>
        /\ \A t \in timers :
               /\ t.delay = Num(Clamp(SuppliedTiming.n, memo.minTiming, memo.maxTiming))
               /\ t.delay.n >= memo.minTiming /\ t.delay.n <= memo.maxTiming
               /\ t.remaining <= t.delay.n
        /\ ev.op = "effects" => timers # {}

\* an expiry has made active a light with a timing of 5, under the default
\* minTiming of 10: the delay set for it is 10
C14_Witness ==
    /\ mounted /\ ev.op = "effects"
    /\ sequencePosition # InitialPosition
    /\ SuppliedTiming = Num(5)
    /\ props.minTiming = Undefined /\ memo.minTiming = 10
    /\ \E t \in timers : t.delay = Num(10) /\ t.remaining = 10

\* C15 (as claimed): for a value that is absent, no number, NaN or infinite, and
\* min <= max, normalizeTiming returns the default clamped into [min, max].
C15_InvalidValueGivesClampedDefault ==
    (memo.done /\ props.value.t # "num" /\ props.min <= props.max) =>
        /\ memo.result = Clamp(props.defaultValue, props.min, props.max)
        /\ memo.result >= props.min /\ memo.result <= props.max

TimingTable == memo.normalizedTimings

\* C16 (as claimed): whatever the raw timings, and for minTiming <= maxTiming, the
\* TimingTable has one entry per light and every entry lies in
\* [minTiming, maxTiming].
C16_TimingTableInBounds ==
    (ev.op = "mount" /\ memo.minTiming <= memo.maxTiming) =>
        /\ Len(TimingTable) = memo.numLights
        /\ \A i \in 1..Len(TimingTable) :
               TimingTable[i] >= memo.minTiming /\ TimingTable[i] <= memo.maxTiming

LightSet == normalizeColors(props.colors)

\* C17 (as claimed): the LightSet has at least one entry: the three default
\* colors when colors is missing, empty or no list, the string entries of
\* colors in their order otherwise; the component counts its lights on it.
C17_LightSetNeverEmpty ==
    ev.op = "mount" =>
        /\ memo.numLights = Len(LightSet)
        /\ Len(LightSet) >= 1
        /\ (props.colors.k # "array" \/ props.colors.items = <<>>) =>
               LightSet = DEFAULT_COLORS
        /\ (props.colors.k = "array" /\ props.colors.items # <<>>) =>
               LightSet = SelectSeq(props.colors.items, LAMBDA c : c.t = "string")

\* C18 (as claimed): at mount and after every re-render the Sequence is not
\* empty and each of its entries is a light index, an integer of
\* [0, numLights).
C18_SequenceOfValidIndices ==
    /\ Len(Sequence) >= 1
    /\ \A i \in 1..Len(Sequence) : Sequence[i] \in 0..(memo.numLights - 1)

\* the cursor is a position of the Sequence in force
CursorInRange ==
    /\ sequencePosition.t = "num"
    /\ sequencePosition.n >= 0
    /\ sequencePosition.n < Len(Sequence)

\* C19 (as claimed, for a non-empty LightSet): a mounted instance starts with its
\* cursor inside the Sequence, and no step, a re-render to another Sequence
\* included, takes it outside the Sequence then in force.
C19_CursorAlwaysInRange ==
    /\ (memo.numLights >= 1 => CursorInRange)
    /\ [][(mounted' /\ memo.numLights >= 1 /\ memo'.numLights >= 1 /\ CursorInRange) =>
              CursorInRange']_vars

\* x is a number of [0, maxLightIndex]
InLightRange(x) ==
    /\ x.t = "num"
    /\ x.n >= 0
    /\ IF x.half THEN x.n < memo.maxLightIndex ELSE x.n <= memo.maxLightIndex

\* a sequence is supplied, with entries, and none of them is a valid light index
NoValidEntrySupplied ==
    /\ props.sequence.k = "array"
    /\ props.sequence.items # <<>>
    /\ \A i \in 1..Len(props.sequence.items) : ~InLightRange(props.sequence.items[i])

\* C20: when a sequence is supplied and none of its entries is a valid light
\* index, the Sequence is the single entry maxLightIndex; the instance runs on it:
\* the cursor is 0, light maxLightIndex is active, the effects of the mount
\* schedule the delay of that light, and its expiry invokes onLightChange with
\* maxLightIndex.
C20_NoValidEntryFallsBackToMaxIndex ==
    (mounted /\ NoValidEntrySupplied) =>
        /\ Sequence = <<memo.maxLightIndex>>
        /\ sequencePosition = Num(0)
        /\ Active = Num(memo.maxLightIndex)
        /\ ev.op = "effects" => (Cardinality(timers) = 1 /\ \A t \in timers : FreshDelay(t))
        /\ Expired =>
               ev.calls = <<[cb |-> props.onLightChange, arg |-> Num(memo.maxLightIndex),
                             threw |-> FALSE]>>

\* three lights and a sequence without a valid entry: the first expiry has
\* invoked onLightChange with 2
C20_Witness ==
    /\ mounted /\ Expired
    /\ NoValidEntrySupplied
    /\ memo.numLights = 3
    /\ Sequence = <<2>>
    /\ Len(ev.calls) = 1 /\ ev.calls[1].arg = Num(2)

\* x is an integer of [0, maxLightIndex]
IntegerInLightRange(x) == InLightRange(x) /\ ~x.half

\* a sequence is supplied, with entries
SequenceSupplied == props.sequence.k = "array" /\ props.sequence.items # <<>>

\* the integers (the floors) of a list of numbers
FloorsOf(items) == [i \in 1..Len(items) |-> items[i].n]

\* C21 (as claimed): when a sequence is supplied and holds integers of
\* [0, maxLightIndex], the Sequence of the render is the list of those integers,
\* in their order and with their duplicates; every other entry is dropped.
C21_OnlyIntegersKept ==
    (ev.op # "throw" /\ SequenceSupplied /\ SelectSeq(props.sequence.items, IntegerInLightRange) # <<>>) =>
        Sequence = FloorsOf(SelectSeq(props.sequence.items, IntegerInLightRange))

\* C21 (amended): when a sequence is supplied and holds numbers of
\* [0, maxLightIndex], the Sequence of the render is the list of the floors of
\* those numbers, integers or not, in their order and with their duplicates;
\* the entries that are negative, above maxLightIndex, infinite or no numbers
\* are dropped.
C21_InRangeNumbersFloored ==
    (ev.op # "throw" /\ SequenceSupplied /\ SelectSeq(props.sequence.items, InLightRange) # <<>>) =>
        Sequence = FloorsOf(SelectSeq(props.sequence.items, InLightRange))

\* the instance runs on [1, 0, 1, 0], normalized from [1, 0.5, Infinity, 1, 0]
C21_Witness ==
    /\ mounted /\ Expired
    /\ props.sequence = Arr(<<Num(1), NumHalf(0), Infinity, Num(1), Num(0)>>)
    /\ Sequence = <<1, 0, 1, 0>>

\* the sequence is missing, empty or no list
SequenceMissing == props.sequence.k # "array" \/ props.sequence.items = <<>>

\* C22: when the sequence is missing or empty the Sequence of the render is
\* [maxLightIndex, ..., 0]: every light once, in the reverse of the declaration
\* order; with no initialLight the instance starts at its first position, on the
\* last declared light.
C22_DefaultSequenceDescends ==
    (ev.op # "throw" /\ SequenceMissing) =>
        /\ Len(Sequence) = memo.numLights
        /\ \A i \in 1..Len(Sequence) : Sequence[i] = memo.maxLightIndex - (i - 1)
        /\ \A l \in 0..memo.maxLightIndex :
               Cardinality({i \in 1..Len(Sequence) : Sequence[i] = l}) = 1
        /\ (ev.op = "mount" /\ props.initialLight = Undefined /\ memo.numLights >= 1) =>
               (sequencePosition = Num(0) /\ Active = Num(memo.maxLightIndex))

\* two lights and no sequence: the first expiry has moved from light 1 to light 0
C22_Witness ==
    /\ mounted /\ ev.op = "flush"
    /\ props.sequence = Absent
    /\ memo.numLights = 2
    /\ Sequence = <<1, 0>>
    /\ sequencePosition = Num(1)
    /\ Active = Num(0)

\* the state of the fixed component
activeLight == sequencePosition

\* the light that follows a light in the cycle green, yellow, red
FollowingLight(light) ==
    CASE light = "green" -> "yellow"
      [] light = "yellow" -> "red"
      [] light = "red" -> "green"

\* the timing the props supply for the active light of the fixed component
SuppliedFixedTiming == props.timings[activeLight]

\* a supplied timing that is an integer within the bounds
WithinFixedBounds(x) ==
    /\ x.t = "num" /\ ~x.half
    /\ x.n >= minTimingOf(props) /\ x.n <= maxTimingOf(props)

\* once the effects have run and nothing is queued, one delay is pending, and it
\* is the own default of the active light when no number is supplied for it, and
\* the supplied number brought within the bounds otherwise
FixedDelayAsConfigured ==
    (mounted /\ Settled) =>
        /\ \E t \in timers : t.id = timer
        /\ \A t \in timers :
               /\ SuppliedFixedTiming.t # "num" =>
                      t.delay = Num(DEFAULT_TIMINGS[activeLight])
               /\ SuppliedFixedTiming.t = "num" =>
                      t.delay = Num(Clamp(SuppliedFixedTiming.n, minTimingOf(props),
                                          maxTimingOf(props)))
               /\ WithinFixedBounds(SuppliedFixedTiming) => t.delay = SuppliedFixedTiming

\* the light the render of a queued update of the fixed component sets
RenderedFixed(u) == IF u.kind = "set" THEN u.value ELSE FollowingLight(activeLight)

\* C23 (as claimed): in the fixed variant the lights cycle green, yellow, red,
\* green, whatever the starting light: an expiry with nothing else queued queues
\* one update, which renders to the light that follows the active one; that
\* light is given to onLightChange (by the expiry when React computes the update
\* at once, by the render otherwise) and the render makes it the active light;
\* and once the effects have run and nothing is queued a delay is pending for
\* the active light: its default (green 5000, yellow 1000, red 2000) when its
\* timing is not supplied, and the supplied value, brought within
\* [minTiming, maxTiming], when one is supplied.
C23_FixedCycleAndDefaults ==
    /\ FixedDelayAsConfigured
    /\ [][/\ FixedDelayAsConfigured'
          /\ (ev'.op = "fire" /\ mounted /\ Settled) =>
                 /\ Len(updateQueue') = 1
                 /\ RenderedFixed(updateQueue'[1]) = FollowingLight(activeLight)
                 /\ IF updateQueue'[1].kind = "set"
                    THEN Len(ev'.calls) = 1 /\ ev'.calls[1].arg = FollowingLight(activeLight)
                    ELSE ev'.calls = <<>>
          /\ (ev'.op = "flush" /\ Len(updateQueue) = 1) =>
                 /\ activeLight' = RenderedFixed(updateQueue[1])
                 /\ activeLight' # activeLight => passiveEffects'.timer
                 /\ IF updateQueue[1].kind = "set" THEN ev'.calls = <<>>
                    ELSE Len(ev'.calls) = 1 /\ ev'.calls[1].arg = FollowingLight(activeLight)]_vars

\* C24 (as claimed, for a non-empty LightSet): an expiry on a mounted instance
\* invokes the callback the props hold at the time of the expiry, whichever
\* callback they held when the delay was scheduled, and nothing when the props
\* hold no callback.
C24_ExpiryInvokesCurrentCallback ==
    [][(ev'.op = "fire" /\ mounted /\ memo.numLights >= 1 /\ DelaysOfLights) =>
          \A i \in 1..Len(ev'.calls) : ev'.calls[i].cb = props.onLightChange]_vars

\* C25: a re-render that replaces only the onLightChange callback, while no
\* update is queued, leaves the cursor, the pending delays and their remaining
\* times as they were, queues nothing, invokes nothing and leaves only the ref
\* effect to run; and that effect puts the callback into the holder and leaves
\* the delays as they are: the delay is neither cancelled nor rescheduled.
C25_CallbackChangeKeepsDelay ==
    [][/\ (ev'.op = "rerender" /\ ev'.changed = {"onLightChange"} /\ updateQueue = <<>>) =>
             /\ sequencePosition' = sequencePosition
             /\ timers' = timers
             /\ timer' = timer
             /\ updateQueue' = <<>>
             /\ memo' = memo
             /\ ev'.calls = <<>>
             /\ passiveEffects' = [NoEffects EXCEPT !.ref = TRUE]
       /\ (ev'.op = "effects" /\ passiveEffects = [NoEffects EXCEPT !.ref = TRUE]) =>
             /\ onLightChangeRef' = props.onLightChange
             /\ timers' = timers
             /\ timer' = timer
             /\ updateQueue' = updateQueue
             /\ sequencePosition' = sequencePosition]_vars

\* the callback was replaced while 1 ms of a 1000 ms delay remained: the ref
\* effect has run and the delay is still pending with 1 ms to go
C25_Witness ==
    /\ mounted /\ ev.op = "effects" /\ ev.changed = {"onLightChange"}
    /\ onLightChangeRef = "cbThrows"
    /\ \E t \in timers : t.id = timer /\ t.delay = Num(1000) /\ t.remaining = 1

\* C26: an instance that stays mounted never stops: whatever the configuration,
\* as long as the host runs its timers, expiries keep being processed, one after
\* another without end.
C26_MountedKeepsStepping ==
    []<>(~mounted) \/ []<><<\E t \in timers : Fire(t)>>_vars

\* every pending delay has a numeric duration, that of the active light
DelayOfActiveLight ==
    \A t \in timers :
        /\ t.delay.t = "num"
        /\ t.delay = TimingOf(memo, sequencePosition)

\* C27 (as claimed, for a non-empty LightSet): whenever a mounted instance has
\* nothing left to render and no effect left to run, the duration of the pending
\* delay is TimingTable[Sequence[cursor]] for the TimingTable, the Sequence and
\* the cursor of that state; and every delay the timer effect schedules has the
\* duration of the light that is active, a number.
C27_DelayIsTimingOfActiveLight ==
    [][/\ (mounted' /\ Settled' /\ memo'.numLights >= 1) => DelayOfActiveLight'
       /\ (ev'.op = "effects" /\ mounted /\ memo.numLights >= 1 /\ passiveEffects.timer) =>
              \A t \in timers' :
                  /\ t.delay.t = "num"
                  /\ t.delay = TimingOf(memo, sequencePosition)]_vars

\* the position that cyclically follows the cursor
FollowingPosition == Num((sequencePosition.n + 1) % Len(Sequence))

\* the cursor is on a light that the cyclically next position holds again
SameLightAhead ==
    /\ mounted /\ memo.numLights >= 1 /\ Len(Sequence) >= 2
    /\ CursorInRange
    /\ At(Sequence, FollowingPosition) = Active

\* C28: on a Sequence of two or more entries, the expiry on a position whose
\* light the cyclically next position holds again is a full transition: it
\* queues one update, which renders to the next position; the render of that
\* update moves the cursor, keeps the light and leaves the timer effect to run;
\* onLightChange (when registered) is invoked once with the same light index,
\* by the expiry when React computes the update at once and by the render
\* otherwise; and the timer effect leaves exactly one pending delay, a new full
\* one.
C28_RepeatedLightIsFullTransition ==
    [][/\ (SameLightAhead /\ Settled /\ ev'.op = "fire") =>
             /\ Len(updateQueue') = 1
             /\ Rendered(updateQueue'[1]) = FollowingPosition
             /\ FollowingPosition # sequencePosition
             /\ ev'.calls = IF updateQueue'[1].kind = "set"
                            THEN CallOnLightChange(onLightChangeRef, Active)
                            ELSE <<>>
       /\ (SameLightAhead /\ ev'.op = "flush" /\ Len(updateQueue) = 1
              /\ updateQueue[1] \in {SetState(FollowingPosition), Updater(Sequence)}) =>
             /\ sequencePosition' = FollowingPosition
             /\ Active' = Active
             /\ passiveEffects' = [NoEffects EXCEPT !.timer = TRUE]
             /\ ev'.calls = IF updateQueue[1].kind = "set" THEN <<>>
                            ELSE CallOnLightChange(onLightChangeRef, Active)
       /\ (ev'.op = "effects" /\ mounted /\ memo.numLights >= 1 /\ CursorInRange
              /\ passiveEffects.timer) =>
             /\ Cardinality(timers') = 1
             /\ \A t \in timers' :
                    /\ t.id = timer'
                    /\ t.delay = TimingOf(memo, sequencePosition)
                    /\ t.remaining = t.delay.n]_vars

\* the wrap-around of [0,1,2,0]: the expiry on position 3 (light 0) has been
\* rendered, the cursor is at position 0 (light 0 again) and the timer effect is
\* left to run
C28_Witness ==
    /\ mounted /\ ev.op = "flush" /\ ev.changed = {}
    /\ Sequence = <<0, 1, 2, 0>>
    /\ sequencePosition = Num(0)
    /\ passiveEffects.timer

\* C29: with minTiming > maxTiming every finite number normalizes to
\* max(minTiming, min(maxTiming, floor(t))), which is minTiming whatever t is,
\* a result above maxTiming: the bounds are not reconciled.
C29_InvertedBoundsGiveMinTiming ==
    (memo.done /\ IsFiniteNumber(props.value) /\ props.min > props.max) =>
        /\ memo.result = Max2(props.min, Min2(props.max, Floor(props.value)))
        /\ memo.result = props.min
        /\ memo.result > props.max

\* 120 under minTiming 150 and maxTiming 100 has been normalized to 150
C29_Witness ==
    /\ memo.done
    /\ props.value = Num(120) /\ props.min = 150 /\ props.max = 100
    /\ memo.result = 150

\* C30 (as claimed, while the holder has a callback): the mount invokes nothing;
\* a step invokes onLightChange only for an expiry, the one it processes or one
\* whose updater was queued and which it renders, so that the invocations made
\* and the updaters still queued together grow by one with every expiry and
\* with nothing else; and the removal of the instance, after which nothing is
\* rendered any more, leaves no updater queued.
C30_InvokedOnlyOnExpiry ==
    [][/\ ev.op = "mount" => ev.calls = <<>>
       /\ (onLightChangeRef # "none" /\ onLightChangeRef' # "none") =>
             /\ Len(ev'.calls) + QueuedUpdaters(updateQueue')
                    = QueuedUpdaters(updateQueue) + (IF ev'.op = "fire" THEN 1 ELSE 0)
             /\ ev'.op = "unmount" => QueuedUpdaters(updateQueue) = 0]_vars

\* a value passed to onLightChange that is an entry of the Sequence in force and
\* an index of the LightSet
ValidEmission(arg) ==
    /\ arg.t = "num" /\ ~arg.half
    /\ \E j \in 1..Len(Sequence) : Sequence[j] = arg.n
    /\ arg.n >= 0 /\ arg.n < memo.numLights

\* C31 (as claimed, for a non-empty LightSet): whatever the interleaving of
\* re-renders and expiries, the delay that expires was scheduled under the
\* Sequence in force, and every value the expiry passes to onLightChange is an
\* entry of that Sequence and a valid index of the LightSet.
C31_EmitsFromSequenceInForce ==
    [][(ev'.op = "fire" /\ mounted /\ memo.numLights >= 1 /\ DelaysOfLights) =>
          /\ \A t \in timers \ timers' : t.seq = Sequence
          /\ \A i \in 1..Len(ev'.calls) : ValidEmission(ev'.calls[i].arg)]_vars

\* the lights the render shows as active: isActive = (activeLightIndex === index)
\* for every index of normalizedColors
ShownActive == {index \in 0..(memo.numLights - 1) : Active = Num(index)}

\* C32 (as claimed, for a non-empty LightSet): in every state of a mounted
\* instance exactly one light is shown as active, the light Sequence[cursor].
C32_ExactlyOneActiveLight ==
    (mounted /\ memo.numLights >= 1) =>
        /\ Cardinality(ShownActive) = 1
        /\ CursorInRange
        /\ ShownActive = {Sequence[sequencePosition.n + 1]}

====
